---- MODULE Spec2Model ----
(***************************************************************************)
(* Model of the Magic-Square frontend (the App component): the count-job   *)
(* controller (start, poll loop, cancel, teardown), the synchronous solve  *)
(* path and the grid state they share.                                     *)
(*                                                                         *)
(* Conventions.                                                            *)
(*  - A JavaScript string is a sequence of one-character strings; "" is    *)
(*    <<>>.  A nullable value is <<>> (null) or <<v>>.                     *)
(*  - Timer handles, job ids and abort controllers are positive numbers;   *)
(*    0 stands for null in the three refs (the code tests them for         *)
(*    truthiness).                                                         *)
(*  - React drops a state update made after the component has unmounted:   *)
(*    SetState models that.  Refs and window timers are plain JavaScript   *)
(*    and are still written after unmount.                                 *)
(*  - The remote service is the environment: it creates a job when it      *)
(*    answers a start request, moves jobs through their statuses on its    *)
(*    own, and answers a status request with the job's status at the       *)
(*    moment it serves it.  Every network call may also fail.              *)
(***************************************************************************)
EXTENDS Integers, Sequences, FiniteSets, TLC

\* ---------------------------------------------------------------- bounds
\* network requests (start, status, cancel, solve) in one behaviour, counting
\* the reads and form edits too
MaxRequests == 4
\* file and sample reads and form edits (size, cell, target, mode, download) in
\* one behaviour, counting the network requests too
MaxEdits == 3

\* ------------------------------------------------------- program constants
MIN_SIZE == 2
MAX_SIZE == 7
InitialSize == 3
InitialMaxSeconds == 30

VARIABLES
    \* React state of App
    size, target, gridInput, userProvided, gameMode, countInfo,
    runToCompletion, countMaxSeconds, useMultiprocessing, workerCount,
    toast, loading, counting,
    \* refs
    countAbortControllerRef, countPollIntervalRef, activeCountJobIdRef,
    \* browser
    mounted,        \* the component is mounted (FALSE after the effect cleanup ran)
    intervals,      \* handles of the setInterval timers that are live
    toastTimer,     \* a toast-hiding setTimeout is pending (showToast.timeoutId)
    \* network
    startReqs,      \* every start request issued so far, by index
    tickReqs,       \* status requests in flight
    cancelReqs,     \* cancel requests in flight
    solveReq,       \* the solve request in flight: <<>> or <<request>>
    imports,        \* file and sample reads in flight
    \* service
    jobs,           \* by job id, the status the service last showed for the job
    \* history (not program state)
    hist

cfgVars == <<size, target, gameMode, runToCompletion, countMaxSeconds,
             useMultiprocessing, workerCount>>
gridVars == <<gridInput, userProvided>>
jobVars == <<countInfo, counting, countAbortControllerRef, countPollIntervalRef,
             activeCountJobIdRef, intervals>>
toastVars == <<toast, toastTimer>>
netVars == <<startReqs, tickReqs, cancelReqs, solveReq, jobs>>
vars == <<cfgVars, gridVars, jobVars, toastVars, netVars, imports, loading, mounted,
          hist>>

\* ------------------------------------------------------------ JS values
Null == <<>>
Some(v) == <<v>>

Digits == <<"0", "1", "2", "3", "4", "5", "6", "7", "8", "9">>

DigitValue(ch) == (CHOOSE i \in 1..10 : Digits[i] = ch) - 1

\* String(n) for an integer n >= 0: its decimal digits
RECURSIVE String(_)
String(n) == IF n < 10 THEN <<Digits[n + 1]>>
             ELSE String(n \div 10) \o <<Digits[(n % 10) + 1]>>

\* Number(text) for a text of decimal digits; Number("") is 0
RECURSIVE Number(_)
Number(text) == IF text = <<>> THEN 0
                ELSE 10 * Number(SubSeq(text, 1, Len(text) - 1))
                     + DigitValue(text[Len(text)])

defaultTargetForSize(n) == (n * (n * n + 1)) \div 2

createGrid(n, fill) == [r \in 1..n |-> [c \in 1..n |-> fill]]

\* parseCellValue: null for an empty text and for a number below 1
parseCellValue(value) ==
    IF value = <<>> THEN Null
    ELSE IF Number(value) < 1 THEN Null
    ELSE Some(Number(value))

\* buildKnownGrid(onlyUserProvided): the grid of parsed cells
buildKnownGrid(onlyUserProvided) ==
    [r \in 1..Len(gridInput) |->
        [c \in 1..Len(gridInput[r]) |->
            IF onlyUserProvided /\ ~userProvided[r][c] THEN Null
            ELSE parseCellValue(gridInput[r][c])]]

\* buildKnownGrid throws when a filled cell that counts did not parse
hasInvalidCell(onlyUserProvided) ==
    \E r \in 1..Len(gridInput) : \E c \in 1..Len(gridInput[r]) :
        /\ ~(onlyUserProvided /\ ~userProvided[r][c])
        /\ gridInput[r][c] # <<>>
        /\ buildKnownGrid(onlyUserProvided)[r][c] = Null

\* ------------------------------------------------------------ JSON values
\* A JSON value is a record tagged with its type.  JUndefined is what reading a
\* missing field gives.  A number is i + f/10 with f in 0..9: the one fractional
\* digit is enough to tell integers from the rest.  JObj is the object with no
\* fields; JInvalid is a file whose text is not JSON.
JUndefined == [t |-> "undefined"]
JNull == [t |-> "null"]
JBool(b) == [t |-> "boolean", b |-> b]
JNum(i, f) == [t |-> "number", i |-> i, f |-> f]
JInt(i) == JNum(i, 0)
JStr(text) == [t |-> "string", s |-> text]
JArr(items) == [t |-> "array", items |-> items]
JObj == [t |-> "object"]

\* the JSON array of arrays of a matrix of cells
JGrid(m) == JArr([r \in 1..Len(m) |-> JArr(m[r])])
JInvalid == [t |-> "invalid"]

\* the characters of the texts the model names as a whole
Chars(name) ==
    CASE name = "unbounded" -> <<"u", "n", "b", "o", "u", "n", "d", "e", "d">>
      [] name = "bounded_by_size_squared" ->
            <<"b", "o", "u", "n", "d", "e", "d", "_", "b", "y", "_", "s", "i", "z",
              "e", "_", "s", "q", "u", "a", "r", "e", "d">>
      [] name = "hard" -> <<"h", "a", "r", "d">>

\* a JavaScript number: NaN, or the number i + f/10
NaN == <<>>
Num(i, f) == <<[i |-> i, f |-> f]>>

\* Number.isInteger
IsInteger(x) == x # NaN /\ x[1].f = 0

AllDigits(text) == \A k \in 1..Len(text) : \E d \in 1..10 : Digits[d] = text[k]

\* String.prototype.trim for texts padded with spaces
RECURSIVE Trim(_)
Trim(text) ==
    IF text = <<>> THEN text
    ELSE IF text[1] = " " THEN Trim(Tail(text))
    ELSE IF text[Len(text)] = " " THEN Trim(SubSeq(text, 1, Len(text) - 1))
    ELSE text

\* the position of the first "." of a text, or 0
DotAt(text) ==
    IF \E k \in 1..Len(text) : text[k] = "."
    THEN CHOOSE k \in 1..Len(text) :
            text[k] = "." /\ \A j \in 1..(k - 1) : text[j] # "."
    ELSE 0

\* the number with the digits intPart before the point and fracPart after it
Unsigned(intPart, fracPart) ==
    IF ~AllDigits(intPart) \/ ~AllDigits(fracPart) THEN NaN
    ELSE IF Len(intPart) + Len(fracPart) = 0 \/ Len(fracPart) > 1 THEN NaN
    ELSE Num(Number(intPart), Number(fracPart))

Negate(x) ==
    IF x = NaN THEN NaN
    ELSE IF x[1].f = 0 THEN Num(0 - x[1].i, 0)
    ELSE Num(0 - x[1].i - 1, 10 - x[1].f)

\* the number of a decimal literal without sign, whose first "." is at dot
Decimal(body, dot) ==
    IF body = <<>> THEN NaN
    ELSE IF dot = 0 THEN Unsigned(body, <<>>)
    ELSE Unsigned(SubSeq(body, 1, dot - 1), SubSeq(body, dot + 1, Len(body)))

\* the number of a literal whose sign, if any, is dropped in body
Signed(s, body) ==
    IF s[1] = "-" THEN Negate(Decimal(body, DotAt(body)))
    ELSE Decimal(body, DotAt(body))

\* Number(text) for a string: spaces are trimmed, the empty text is 0, a decimal
\* literal with an optional sign is its value and any other text is NaN.  The
\* texts of the model have at most one digit after the point and no exponent,
\* radix prefix or "Infinity".
TrimmedToNumber(s) ==
    IF s = <<>> THEN Num(0, 0)
    ELSE Signed(s, IF s[1] \in {"-", "+"} THEN Tail(s) ELSE s)

StringToNumber(text) == TrimmedToNumber(Trim(text))

\* Number(value) for a JSON value.  An array is converted through its text: the
\* empty array is "", an array of one element is that element's text, and a
\* longer one has a comma in it.
RECURSIVE ToNumber(_)
ToNumber(v) ==
    CASE v.t = "number" -> Num(v.i, v.f)
      [] v.t = "boolean" -> Num(IF v.b THEN 1 ELSE 0, 0)
      [] v.t = "null" -> Num(0, 0)
      [] v.t = "undefined" -> NaN
      [] v.t = "string" -> StringToNumber(v.s)
      [] v.t = "object" -> NaN
      [] v.t = "array" ->
            IF Len(v.items) = 0 THEN Num(0, 0)
            ELSE IF Len(v.items) > 1 THEN NaN
            ELSE IF v.items[1].t \in {"null", "undefined"} THEN Num(0, 0)
            ELSE IF v.items[1].t \in {"boolean", "object"} THEN NaN
            ELSE ToNumber(v.items[1])

\* ----------------------------------------------- validation of the form
\* validateTarget: the error it throws, or Null
validateTargetError ==
    IF Number(target) <= size THEN Some("Target must be greater than grid size.")
    ELSE Null

\* the test on the converted worker count
positiveInteger(parsed) == IsInteger(parsed) /\ parsed[1].i > 0

\* faulty variant: the worker count is not validated
countValidationErrorAnyWorkers ==
    IF validateTargetError # Null THEN validateTargetError
    ELSE IF hasInvalidCell(TRUE) THEN Some("All filled cells must be integers >= 1.")
    ELSE IF ~runToCompletion /\ Number(countMaxSeconds) <= 0
        THEN Some("Max count time must be a positive number of seconds.")
    ELSE Null

\* the validation block of handleCountSolutions: the first error thrown, or
\* Null.  The worker count is converted as any text; the target and the time
\* limit of the model are texts of digits.
countValidationError ==
    IF validateTargetError # Null THEN validateTargetError
    ELSE IF hasInvalidCell(TRUE) THEN Some("All filled cells must be integers >= 1.")
    ELSE IF ~runToCompletion /\ Number(countMaxSeconds) <= 0
        THEN Some("Max count time must be a positive number of seconds.")
    ELSE IF /\ useMultiprocessing /\ workerCount # <<>>
            /\ ~positiveInteger(StringToNumber(workerCount))
        THEN Some("Worker count must be a positive integer.")
    ELSE Null

\* faulty variant: the cells are not validated
solveValidationErrorTargetOnly == validateTargetError

\* the validation block of handleSolve and of handleDownloadPuzzle: the first
\* error thrown, or Null
solveValidationError ==
    IF validateTargetError # Null THEN validateTargetError
    ELSE IF hasInvalidCell(FALSE) THEN Some("All filled cells must be integers >= 1.")
    ELSE Null

\* the body of the start request; workers is a JavaScript number, or null
countRequestBody ==
    [target |-> Number(target),
     size |-> size,
     known_grid |-> buildKnownGrid(TRUE),
     game_mode |-> gameMode,
     mode |-> IF runToCompletion THEN "exact" ELSE "auto",
     max_seconds |-> IF runToCompletion THEN Null ELSE Some(Number(countMaxSeconds)),
     sample_paths |-> 300,
     use_multiprocessing |-> useMultiprocessing,
     workers |-> IF useMultiprocessing /\ workerCount # <<>>
                 THEN StringToNumber(workerCount) ELSE Null]

\* the body of the solve request
solveRequestBody ==
    [target |-> Number(target),
     size |-> size,
     known_grid |-> buildKnownGrid(FALSE),
     game_mode |-> gameMode,
     trace |-> FALSE]

\* ------------------------------------------------------- the puzzle validator
GAME_MODES == {"unbounded", "bounded_by_size_squared"}

\* what a validation returns, and what it throws
Ok(value) == [ok |-> TRUE, value |-> value]
Err(message, arg) == [ok |-> FALSE, message |-> message, arg |-> arg]

shapeError(n) == Err("known_grid must be a NxN array.", <<n, n>>)
cellError(r, c) == Err("Cell (R, C) must be an integer >= 1 or null.", <<r, c>>)

\* a cell of an imported grid is left empty
cellIsEmpty(cell) == cell.t = "null" \/ (cell.t = "string" /\ cell.s = <<>>)

\* the test on a converted cell: an integer >= 1
cellNumberOk(parsed) == IsInteger(parsed) /\ parsed[1].i >= 1

\* faulty variant: a cell that does not coerce to an integer >= 1 is taken as empty
cellIsValidLenient(cell) == TRUE

\* a cell of an imported grid passes
cellIsValid(cell) == cellIsEmpty(cell) \/ cellNumberOk(ToNumber(cell))

\* the value of a converted cell that passes
numberToCell(parsed) == IF cellNumberOk(parsed) THEN Some(parsed[1].i) ELSE Null

\* the value a passing cell is normalised to
cellValue(cell) == IF cellIsEmpty(cell) THEN Null ELSE numberToCell(ToNumber(cell))

\* the first of a set of indices
firstOf(indices) == CHOOSE k \in indices : \A q \in indices : k <= q

\* the error of the first of the cells of row r that do not pass, if any
firstCellError(r, bad) ==
    IF bad = {} THEN Null ELSE Some(cellError(r, firstOf(bad)))

\* what the callback of rawGrid.map throws for a row, if anything
rowError(row, r, n) ==
    IF row.t # "array" THEN Some(shapeError(n))
    ELSE IF Len(row.items) # n THEN Some(shapeError(n))
    ELSE firstCellError(r, {c \in 1..n : ~cellIsValid(row.items[c])})

\* what a row throws
thrownByRow(rawGrid, r, n) == rowError(rawGrid.items[r], r, n)[1]

\* rawGrid.map over rows of which those of bad throw: the error of the first of
\* them, or the grid of the cell values
normalizeRows(rawGrid, n, bad) ==
    IF bad = {}
    THEN Ok([r \in 1..n |-> [c \in 1..n |-> cellValue(rawGrid.items[r].items[c])]])
    ELSE thrownByRow(rawGrid, firstOf(bad), n)

\* faulty variant: a missing grid is rejected like a malformed one
normalizeKnownGridStrict(rawGrid, n) ==
    IF rawGrid.t # "array" THEN shapeError(n)
    ELSE IF Len(rawGrid.items) # n THEN shapeError(n)
    ELSE normalizeRows(rawGrid, n,
                       {r \in 1..n : rowError(rawGrid.items[r], r, n) # Null})

normalizeKnownGrid(rawGrid, n) ==
    IF rawGrid.t \in {"undefined", "null"} THEN Ok(createGrid(n, Null))
    ELSE IF rawGrid.t # "array" THEN shapeError(n)
    ELSE IF Len(rawGrid.items) # n THEN shapeError(n)
    ELSE normalizeRows(rawGrid, n,
                       {r \in 1..n : rowError(rawGrid.items[r], r, n) # Null})

\* value ?? fallback
orElse(value, fallback) ==
    IF value.t \in {"undefined", "null"} THEN fallback ELSE value

\* the puzzle object of a file: the fields parsePuzzleJson reads
PuzzleObject(sizeField, targetField, modeField, knownGridField, gridField) ==
    [t |-> "object", size |-> sizeField, target |-> targetField,
     game_mode |-> modeField, known_grid |-> knownGridField, grid |-> gridField]

\* the field of a JSON object, JUndefined when it has none
Field(rawData, name) ==
    IF name \in DOMAIN rawData THEN rawData[name] ELSE JUndefined

\* the return statement, or the error normalizeKnownGrid threw
puzzleWithGrid(parsedSize, parsedTarget, parsedGameMode, knownGrid) ==
    IF ~knownGrid.ok THEN knownGrid
    ELSE Ok([size |-> parsedSize,
             target |-> parsedTarget,
             gameMode |-> CHOOSE m \in GAME_MODES : Chars(m) = parsedGameMode.s,
             knownGrid |-> knownGrid.value])

\* the statements from the game mode test on
puzzleWithGameMode(rawData, parsedSize, parsedTarget, parsedGameMode) ==
    IF \/ parsedGameMode.t # "string"
       \/ \A m \in GAME_MODES : Chars(m) # parsedGameMode.s
    THEN Err("game_mode must be one of: unbounded, bounded_by_size_squared.", <<>>)
    ELSE puzzleWithGrid(parsedSize, parsedTarget, parsedGameMode,
            normalizeKnownGrid(orElse(Field(rawData, "known_grid"),
                                      Field(rawData, "grid")), parsedSize))

\* the statements from the target test on
puzzleWithTarget(rawData, parsedSize, parsedTarget) ==
    IF ~IsInteger(parsedTarget) \/ parsedTarget[1].i <= parsedSize
    THEN Err("target must be an integer greater than size.", <<>>)
    ELSE puzzleWithGameMode(rawData, parsedSize, parsedTarget[1].i,
            orElse(Field(rawData, "game_mode"), JStr(Chars("unbounded"))))

\* the statements from the size test on
puzzleWithSize(rawData, parsedSize) ==
    IF \/ ~IsInteger(parsedSize)
       \/ parsedSize[1].i < MIN_SIZE
       \/ parsedSize[1].i > MAX_SIZE
    THEN Err("size must be an integer between MIN and MAX.", <<MIN_SIZE, MAX_SIZE>>)
    ELSE puzzleWithTarget(rawData, parsedSize[1].i, ToNumber(Field(rawData, "target")))

parsePuzzleJson(rawData) ==
    IF rawData.t # "object" THEN Err("Puzzle JSON must be an object.", <<>>)
    ELSE puzzleWithSize(rawData, ToNumber(Field(rawData, "size")))

\* ------------------------------------------------------------ React, timers
\* a state setter: React drops the update once the component is unmounted
SetState(current, next) == IF mounted THEN next ELSE current

Toast(type, message, arg) == [type |-> type, message |-> message, arg |-> arg]

\* showToast(type, message, persistent)
showToast(t, persistent) ==
    /\ toast' = SetState(toast, Some(t))
    /\ toastTimer' = ~persistent

\* faulty variant: the handle is dropped without clearInterval
intervalsAfterClearLeaks == intervals

\* the timers left live by clearCountPolling
intervalsAfterClear ==
    IF countPollIntervalRef # 0 THEN intervals \ {countPollIntervalRef}
    ELSE intervals

\* clearCountPolling()
clearCountPolling ==
    /\ intervals' = intervalsAfterClear
    /\ countPollIntervalRef' = 0

TerminalStatuses == {"completed", "canceled", "failed"}

\* message of a failed network call (fetch rejects); a body that does not decode
\* takes the same catch path with another message
TransportErrors == {"Failed to fetch"}

\* the detail of a non-success response, when the service gives one
ServiceDetails == {Null, Some("service detail")}

\* ----------------------------------------------------------------- Init
\* the component after construction: the state, the refs, no timer, no request
InitApp ==
    /\ size = InitialSize
    /\ target = String(defaultTargetForSize(InitialSize))
    /\ gridInput = createGrid(InitialSize, <<>>)
    /\ userProvided = createGrid(InitialSize, FALSE)
    /\ gameMode = "unbounded"
    /\ countInfo = Null
    /\ runToCompletion = FALSE
    /\ countMaxSeconds = String(InitialMaxSeconds)
    /\ useMultiprocessing = FALSE
    /\ workerCount = <<>>
    /\ toast = Null
    /\ loading = FALSE
    /\ counting = FALSE
    /\ countAbortControllerRef = 0
    /\ countPollIntervalRef = 0
    /\ activeCountJobIdRef = 0
    /\ mounted = TRUE
    /\ intervals = {}
    /\ toastTimer = FALSE
    /\ startReqs = <<>>
    /\ tickReqs = {}
    /\ cancelReqs = {}
    /\ solveReq = Null
    /\ jobs = <<>>

NoHistory ==
    [cancelIssued |-> {}, superseded |-> {}, terminalSeen |-> {},
     disposedStarting |-> FALSE, nTicks |-> 0,
     lastApplied |-> [job |-> 0, seq |-> 0],
     nCancels |-> 0, nSolves |-> 0, nImports |-> 0, nEdits |-> 0,
     imported |-> Null, exported |-> Null, jobsAtResize |-> 0,
     authored |-> createGrid(InitialSize, FALSE),
     authoredAtSolve |-> createGrid(InitialSize, FALSE)]

Init ==
    /\ InitApp
    /\ imports = {}
    /\ hist = NoHistory

\* the number of network requests, reads and form edits so far
requestsIssued ==
    Len(startReqs) + hist.nTicks + hist.nCancels + hist.nSolves
    + hist.nImports + hist.nEdits

\* ------------------------------------------------- handleCountSolutions
\* click on Count Solutions: validation, confirmation, then the start request
HandleCountSolutions ==
    /\ mounted /\ ~loading /\ ~counting
    /\ requestsIssued < MaxRequests
    /\ IF countValidationError # Null
       THEN /\ showToast(Toast("error", countValidationError[1], Null), FALSE)
            /\ UNCHANGED <<startReqs, countAbortControllerRef>>
       ELSE \E confirmed \in (IF runToCompletion THEN BOOLEAN ELSE {TRUE}) :
            IF ~confirmed
            THEN UNCHANGED <<startReqs, countAbortControllerRef, toastVars>>
            ELSE /\ startReqs' = Append(startReqs,
                        [state |-> "sent", aborted |-> FALSE,
                         body |-> countRequestBody])
                 /\ countAbortControllerRef' = Len(startReqs) + 1
                 /\ UNCHANGED toastVars
    /\ UNCHANGED <<imports, cfgVars, gridVars, countInfo, counting, countPollIntervalRef,
                   activeCountJobIdRef, intervals, tickReqs, cancelReqs, solveReq,
                   jobs, loading, mounted, hist>>

\* the toast shown when the poll loop is armed
countingToast(body) ==
    IF body.mode = "exact"
    THEN Toast("info", "Counting all solutions (no time limit). The solver is thinking...", Null)
    ELSE Toast("info", "Counting solutions (up to Ns exact + estimate fallback)...",
               body.max_seconds)

\* faulty variant: the poll loop is armed without setCounting(true)
StartOkForgetsCounting(r) ==
    /\ startReqs[r].state = "sent" /\ ~startReqs[r].aborted
    /\ jobs' = Append(jobs, "queued")
    /\ activeCountJobIdRef' = Len(jobs) + 1
    /\ intervals' = intervalsAfterClear \cup {r}
    /\ countPollIntervalRef' = r
    /\ showToast(countingToast(startReqs[r].body), TRUE)
    /\ countAbortControllerRef' = 0
    /\ startReqs' = [startReqs EXCEPT ![r].state = "done"]
    /\ UNCHANGED <<imports, cfgVars, gridVars, countInfo, counting, tickReqs, cancelReqs,
                   solveReq, loading, mounted, hist>>

\* the start request succeeds: the service has created a job and returns its id;
\* the job id is stored, the previous timer cleared and the poll loop armed
StartOk(r) ==
    /\ startReqs[r].state = "sent" /\ ~startReqs[r].aborted
    /\ jobs' = Append(jobs, "queued")
    /\ activeCountJobIdRef' = Len(jobs) + 1
    /\ counting' = SetState(counting, TRUE)
    /\ intervals' = intervalsAfterClear \cup {r}
    /\ countPollIntervalRef' = r
    /\ showToast(countingToast(startReqs[r].body), TRUE)
    /\ countAbortControllerRef' = 0
    /\ startReqs' = [startReqs EXCEPT ![r].state = "done"]
    /\ hist' = [hist EXCEPT !.superseded =
                    IF countPollIntervalRef # 0 /\ countPollIntervalRef \in intervals
                    THEN @ \cup {activeCountJobIdRef} ELSE @]
    /\ UNCHANGED <<imports, cfgVars, gridVars, countInfo, tickReqs, cancelReqs, solveReq,
                   loading, mounted>>

\* faulty variant: the failed start leaves the controller counting
startFailedKeepsCounting(r, message) ==
    /\ showToast(Toast("error", message, Null), FALSE)
    /\ counting' = SetState(counting, TRUE)
    /\ countAbortControllerRef' = 0
    /\ startReqs' = [startReqs EXCEPT ![r].state = "done"]
    /\ UNCHANGED <<imports, cfgVars, gridVars, countInfo, countPollIntervalRef,
                   activeCountJobIdRef, intervals, tickReqs, cancelReqs, solveReq,
                   jobs, loading, mounted, hist>>

\* the catch and finally blocks of handleCountSolutions for an error that is not
\* an abort
startFailed(r, message) ==
    /\ showToast(Toast("error", message, Null), FALSE)
    /\ countAbortControllerRef' = 0
    /\ startReqs' = [startReqs EXCEPT ![r].state = "done"]
    /\ UNCHANGED <<imports, cfgVars, gridVars, countInfo, counting, countPollIntervalRef,
                   activeCountJobIdRef, intervals, tickReqs, cancelReqs, solveReq,
                   jobs, loading, mounted, hist>>

\* the service answers the start request with a non-success response
StartRejected(r) ==
    /\ startReqs[r].state = "sent" /\ ~startReqs[r].aborted
    /\ \E detail \in ServiceDetails :
        startFailed(r, IF detail # Null THEN detail[1] ELSE "Count request failed.")

\* the start request fails in transport or its body does not decode
StartTransportError(r) ==
    /\ startReqs[r].state = "sent" /\ ~startReqs[r].aborted
    /\ \E message \in TransportErrors : startFailed(r, message)

\* the start request was aborted: fetch rejects with an AbortError
StartAborted(r) ==
    /\ startReqs[r].state = "sent" /\ startReqs[r].aborted
    /\ showToast(Toast("info", "Counting canceled.", Null), FALSE)
    /\ countAbortControllerRef' = 0
    /\ startReqs' = [startReqs EXCEPT ![r].state = "done"]
    /\ UNCHANGED <<imports, cfgVars, gridVars, countInfo, counting, countPollIntervalRef,
                   activeCountJobIdRef, intervals, tickReqs, cancelReqs, solveReq,
                   jobs, loading, mounted, hist>>

\* ------------------------------------------------------ effect cleanup
\* the cleanup of the mount effect (teardown): the poll loop is cleared and the
\* abort controller the ref holds, if any, is aborted
Dispose ==
    /\ mounted
    /\ mounted' = FALSE
    /\ clearCountPolling
    /\ startReqs' = IF countAbortControllerRef # 0
                    THEN [startReqs EXCEPT ![countAbortControllerRef].aborted = TRUE]
                    ELSE startReqs
    /\ hist' = [hist EXCEPT !.disposedStarting =
                    /\ \E r \in 1..Len(startReqs) : startReqs[r].state = "sent"
                    /\ ~counting /\ countPollIntervalRef = 0]
    /\ UNCHANGED <<imports, cfgVars, gridVars, countInfo, counting, countAbortControllerRef,
                   activeCountJobIdRef, toastVars, tickReqs, cancelReqs, solveReq,
                   jobs, loading>>

\* ------------------------------------------------------------ the poll loop
\* the interval fires: the callback issues a status request for the job id the
\* ref holds at that moment (it does not wait for an earlier request to finish)
TickFire(h) ==
    /\ h \in intervals
    /\ requestsIssued < MaxRequests
    /\ tickReqs' = tickReqs \cup
            {[seq |-> hist.nTicks + 1, job |-> activeCountJobIdRef, snap |-> Null]}
    /\ hist' = [hist EXCEPT !.nTicks = @ + 1]
    /\ UNCHANGED <<imports, cfgVars, gridVars, jobVars, toastVars, startReqs, cancelReqs,
                   solveReq, jobs, loading, mounted>>

\* the status snapshot the service returns for a job.  Fractional numbers are
\* fixed-point: elapsed_seconds in tenths of a second, estimated_count in
\* hundredths, relative_error in thousandths.
Snapshot(job, status) ==
    [job_id |-> job,
     status |-> status,
     lower_bound |-> IF status = "queued" THEN Some(0) ELSE Some(3),
     exact |-> status = "completed",
     count |-> IF status = "completed" THEN Some(8) ELSE Null,
     elapsed_seconds |-> IF status = "queued" THEN Some(0) ELSE Some(14),
     nodes_visited |-> IF status = "queued" THEN Some(0) ELSE Some(20),
     mode_used |-> IF status = "completed" THEN Some("exact") ELSE Null,
     estimated_count |-> Null,
     relative_error |-> Null,
     error |-> IF status = "failed" THEN Some("solver error") ELSE Null]

\* the statuses a job may have by now, given the status the service last showed
\* for it: the job runs on its own between two requests
statusesFrom(status) ==
    IF status = "queued" THEN {"queued", "running", "completed", "failed"}
    ELSE IF status = "running" THEN {"running", "completed", "failed"}
    ELSE IF status = "canceling" THEN {"canceling", "canceled"}
    ELSE {status}

\* the service serves a status request: the response carries the job's status now
ServerStatus(t) ==
    /\ t \in tickReqs /\ t.snap = Null
    /\ t.job \in 1..Len(jobs)
    /\ \E status \in statusesFrom(jobs[t.job]) :
        /\ jobs' = [jobs EXCEPT ![t.job] = status]
        /\ tickReqs' = (tickReqs \ {t}) \cup
                {[t EXCEPT !.snap = Some(Snapshot(t.job, status))]}
    /\ UNCHANGED <<imports, cfgVars, gridVars, jobVars, toastVars, startReqs, cancelReqs,
                   solveReq, loading, mounted, hist>>

\* the toast of a terminal snapshot
terminalToast(statusData) ==
    IF statusData.status = "completed"
    THEN IF statusData.exact
         THEN Toast("success", "Exact solution count: ", statusData.count)
         ELSE Toast("info", "Count completed with estimate.", Null)
    ELSE IF statusData.status = "canceled"
    THEN Toast("info", "Counting canceled. Latest lower bound: ",
               IF statusData.lower_bound = Null THEN Some(0) ELSE statusData.lower_bound)
    ELSE Toast("error",
               IF statusData.error = Null THEN "Counting failed." ELSE statusData.error[1],
               Null)

\* faulty variant: the terminal branch forgets to clear the poll loop
stopOnTerminalKeepsPolling(statusData) ==
    /\ UNCHANGED <<intervals, countPollIntervalRef>>
    /\ counting' = SetState(counting, FALSE)
    /\ showToast(terminalToast(statusData), FALSE)

\* the branch of the tick callback for a terminal snapshot
stopOnTerminal(statusData) ==
    /\ clearCountPolling
    /\ counting' = SetState(counting, FALSE)
    /\ showToast(terminalToast(statusData), FALSE)

\* a status response arrives: the snapshot is stored; a terminal one clears the
\* poll loop, resets counting and shows the result
TickResolve(t) ==
    /\ t \in tickReqs /\ t.snap # Null
    /\ tickReqs' = tickReqs \ {t}
    /\ countInfo' = SetState(countInfo, t.snap)
    /\ IF t.snap[1].status \in TerminalStatuses
       THEN stopOnTerminal(t.snap[1])
       ELSE UNCHANGED <<intervals, countPollIntervalRef, counting, toastVars>>
    /\ hist' = [hist EXCEPT
                    !.lastApplied = IF mounted THEN [job |-> t.job, seq |-> t.seq]
                                    ELSE @,
                    !.terminalSeen = IF t.snap[1].status \in TerminalStatuses
                                     THEN @ \cup {t.job} ELSE @]
    /\ UNCHANGED <<imports, cfgVars, gridVars, countAbortControllerRef, activeCountJobIdRef,
                   startReqs, cancelReqs, solveReq, jobs, loading, mounted>>

\* faulty variant: the catch block of the tick callback leaves the poll loop armed
pollFailedKeepsPolling(t, message) ==
    /\ tickReqs' = tickReqs \ {t}
    /\ showToast(Toast("error", message, Null), FALSE)
    /\ UNCHANGED <<imports, cfgVars, gridVars, jobVars, startReqs, cancelReqs, solveReq, jobs,
                   loading, mounted, hist>>

\* the catch block of the tick callback
pollFailed(t, message) ==
    /\ tickReqs' = tickReqs \ {t}
    /\ clearCountPolling
    /\ counting' = SetState(counting, FALSE)
    /\ showToast(Toast("error", message, Null), FALSE)
    /\ UNCHANGED <<imports, cfgVars, gridVars, countInfo, countAbortControllerRef,
                   activeCountJobIdRef, startReqs, cancelReqs, solveReq, jobs,
                   loading, mounted, hist>>

\* the status request fails in transport, or its body does not decode
TickTransportError(t) ==
    /\ t \in tickReqs
    /\ \E message \in TransportErrors : pollFailed(t, message)

\* the service answers the status request with a non-success response
TickRejected(t) ==
    /\ t \in tickReqs /\ t.snap = Null
    /\ \E detail \in ServiceDetails :
        pollFailed(t, IF detail # Null THEN detail[1]
                      ELSE "Unable to fetch count status.")

\* ---------------------------------------------------------------- cancel
\* faulty variant: the guard of handleCancelCount does not look at counting
cancelSentWhenIdle == activeCountJobIdRef # 0

\* the request handleCancelCount sends, if its guard lets it
cancelSent == counting /\ activeCountJobIdRef # 0

\* faulty variant: cancel stops the poll loop itself instead of waiting for the service
HandleCancelCountStopsPolling ==
    /\ mounted /\ counting
    /\ requestsIssued < MaxRequests
    /\ cancelSent
    /\ cancelReqs' = cancelReqs \cup
            {[id |-> hist.nCancels + 1, job |-> activeCountJobIdRef]}
    /\ showToast(Toast("info",
            "Cancel requested. Waiting for solver to stop...", Null), TRUE)
    /\ hist' = [hist EXCEPT !.nCancels = @ + 1,
                            !.cancelIssued = @ \cup {activeCountJobIdRef}]
    /\ clearCountPolling
    /\ counting' = FALSE
    /\ UNCHANGED <<imports, cfgVars, gridVars, countInfo, countAbortControllerRef,
                   activeCountJobIdRef, startReqs, tickReqs, solveReq, jobs,
                   loading, mounted>>

\* click on Cancel Count (the button is rendered while counting)
HandleCancelCount ==
    /\ mounted /\ counting
    /\ requestsIssued < MaxRequests
    /\ IF cancelSent
       THEN /\ cancelReqs' = cancelReqs \cup
                    {[id |-> hist.nCancels + 1, job |-> activeCountJobIdRef]}
            /\ showToast(Toast("info",
                    "Cancel requested. Waiting for solver to stop...", Null), TRUE)
            /\ hist' = [hist EXCEPT !.nCancels = @ + 1,
                                    !.cancelIssued = @ \cup {activeCountJobIdRef}]
       ELSE UNCHANGED <<cancelReqs, toastVars, hist>>
    /\ UNCHANGED <<imports, cfgVars, gridVars, jobVars, startReqs, tickReqs, solveReq, jobs,
                   loading, mounted>>

\* the service receives the cancel request; the client ignores the response
CancelDelivered(c) ==
    /\ c \in cancelReqs
    /\ cancelReqs' = cancelReqs \ {c}
    /\ c.job \in 1..Len(jobs)
    /\ \E status \in statusesFrom(jobs[c.job]) :
        jobs' = [jobs EXCEPT ![c.job] =
                    IF status \in {"queued", "running"} THEN "canceling" ELSE status]
    /\ UNCHANGED <<imports, cfgVars, gridVars, jobVars, toastVars, startReqs, tickReqs,
                   solveReq, loading, mounted, hist>>

\* the cancel request fails in transport: the catch callback shows a notice
CancelTransportError(c) ==
    /\ c \in cancelReqs
    /\ cancelReqs' = cancelReqs \ {c}
    /\ showToast(Toast("error", "Unable to send cancel request.", Null), FALSE)
    /\ UNCHANGED <<imports, cfgVars, gridVars, jobVars, startReqs, tickReqs, solveReq, jobs,
                   loading, mounted, hist>>

\* ---------------------------------------------------------------- import
\* JSON.parse of the text read, then parsePuzzleJson
loadResult(raw) ==
    IF raw.t = "invalid" THEN Err("Unexpected token", <<>>) ELSE parsePuzzleJson(raw)

\* a read that the handlers started: what will be read, and the counting flag of
\* the render whose handler started it (the closure applyPuzzleConfig runs in)
startImport(kind, raw) ==
    /\ mounted /\ ~loading /\ ~counting
    /\ requestsIssued < MaxEdits
    /\ imports' = imports \cup
            {[id |-> hist.nImports + 1, kind |-> kind, raw |-> raw,
              counting |-> counting]}
    /\ hist' = [hist EXCEPT !.nImports = @ + 1]
    /\ UNCHANGED <<cfgVars, gridVars, jobVars, toastVars, netVars, loading, mounted>>

\* a file is chosen in the file input: handleLocalFileLoad up to its await
HandleLocalFileLoad(raw) == startImport("file", raw)

\* click on Load Example: handleSampleLoad up to its await
HandleSampleLoad(raw) == startImport("sample", raw)

\* applyPuzzleConfig: a cancel request if the closure's counting flag is set,
\* then the puzzle replaces the form state.  The target is stored as a number;
\* the model keeps its decimal text, which is what the input shows.
applyPuzzleConfig(puzzleConfig, closureCounting) ==
    /\ IF closureCounting /\ activeCountJobIdRef # 0
       THEN cancelReqs' = cancelReqs \cup
                {[id |-> hist.nCancels + 1, job |-> activeCountJobIdRef]}
       ELSE UNCHANGED cancelReqs
    /\ size' = SetState(size, puzzleConfig.size)
    /\ target' = SetState(target, String(puzzleConfig.target))
    /\ gameMode' = SetState(gameMode, puzzleConfig.gameMode)
    /\ gridInput' = SetState(gridInput,
            [r \in 1..puzzleConfig.size |-> [c \in 1..puzzleConfig.size |->
                IF puzzleConfig.knownGrid[r][c] = Null THEN <<>>
                ELSE String(puzzleConfig.knownGrid[r][c][1])]])
    /\ userProvided' = SetState(userProvided,
            [r \in 1..puzzleConfig.size |-> [c \in 1..puzzleConfig.size |->
                puzzleConfig.knownGrid[r][c] # Null]])
    /\ countInfo' = SetState(countInfo, Null)
    /\ runToCompletion' = SetState(runToCompletion, FALSE)
    /\ useMultiprocessing' = SetState(useMultiprocessing, FALSE)
    /\ workerCount' = SetState(workerCount, <<>>)
    /\ showToast(Toast("success", "Loaded puzzle from L.", Null), FALSE)

\* the read completes: the text is parsed and validated; a valid puzzle is
\* applied, anything else is shown as an error and changes nothing else
ImportLoaded(i) ==
    /\ i \in imports
    /\ imports' = imports \ {i}
    /\ (i.counting /\ activeCountJobIdRef # 0) => requestsIssued < MaxRequests
    /\ \E result \in {loadResult(i.raw)} :
        /\ IF result.ok
           THEN applyPuzzleConfig(result.value, i.counting)
           ELSE /\ showToast(Toast("error", result.message, result.arg), FALSE)
                /\ UNCHANGED <<cfgVars, gridVars, countInfo, cancelReqs>>
        /\ hist' = [hist EXCEPT
                    !.imported = Some([raw |-> i.raw, result |-> result]),
                    !.authored =
                        IF result.ok /\ mounted
                        THEN [r \in 1..result.value.size |->
                                [c \in 1..result.value.size |->
                                    result.value.knownGrid[r][c] # Null]]
                        ELSE @,
                    !.nCancels = IF result.ok /\ i.counting /\ activeCountJobIdRef # 0
                                 THEN @ + 1 ELSE @,
                    !.cancelIssued = IF result.ok /\ i.counting
                                        /\ activeCountJobIdRef # 0
                                     THEN @ \cup {activeCountJobIdRef} ELSE @]
    /\ UNCHANGED <<countMaxSeconds, counting, countAbortControllerRef,
                   countPollIntervalRef, activeCountJobIdRef, intervals, startReqs,
                   tickReqs, solveReq, jobs, loading, mounted>>

\* the read fails: the file cannot be read, or the sample request fails in
\* transport or gets a non-success response
ImportFailed(i) ==
    /\ i \in imports
    /\ imports' = imports \ {i}
    /\ \E message \in IF i.kind = "file" THEN {"Unable to load file."}
                       ELSE TransportErrors \cup {"Unable to load sample file."} :
        showToast(Toast("error", message, Null), FALSE)
    /\ UNCHANGED <<cfgVars, gridVars, jobVars, netVars, loading, mounted, hist>>

\* ------------------------------------------------------------- the form
\* the size select changes (it offers MIN_SIZE..MAX_SIZE and is enabled unless
\* loading): a fresh grid and mask, the default target, the count fields reset
HandleSizeChange(nextSize) ==
    /\ mounted /\ ~loading
    /\ nextSize \in MIN_SIZE..MAX_SIZE /\ nextSize # size
    /\ requestsIssued < MaxEdits
    /\ size' = nextSize
    /\ gridInput' = createGrid(nextSize, <<>>)
    /\ userProvided' = createGrid(nextSize, FALSE)
    /\ target' = String(defaultTargetForSize(nextSize))
    /\ countInfo' = Null
    /\ runToCompletion' = FALSE
    /\ useMultiprocessing' = FALSE
    /\ workerCount' = <<>>
    /\ hist' = [hist EXCEPT !.nEdits = @ + 1, !.jobsAtResize = Len(jobs),
                            !.authored = createGrid(nextSize, FALSE)]
    /\ UNCHANGED <<imports, gameMode, countMaxSeconds, counting,
                   countAbortControllerRef, countPollIntervalRef, activeCountJobIdRef,
                   intervals, toastVars, netVars, loading, mounted>>

\* the texts typed into a cell, and the cells typed into
CellTexts == {<<>>, <<"0">>, <<"5">>, <<"a">>, <<"5", "a">>}
EditedCells == {<<1, 2>>}

\* faulty variant: the cell is flagged as provided whatever the text
HandleCellChangeFlagsAlways(rowIndex, colIndex, raw) ==
    /\ mounted /\ ~loading
    /\ rowIndex \in 1..Len(gridInput) /\ colIndex \in 1..Len(gridInput[rowIndex])
    /\ requestsIssued < MaxEdits
    /\ IF raw # <<>> /\ ~AllDigits(raw)
       THEN UNCHANGED gridVars
       ELSE /\ gridInput' = [gridInput EXCEPT ![rowIndex][colIndex] = raw]
            /\ userProvided' = [userProvided EXCEPT ![rowIndex][colIndex] = TRUE]
    /\ hist' = [hist EXCEPT
                    !.nEdits = @ + 1,
                    !.authored = IF raw # <<>> /\ ~AllDigits(raw) THEN @
                                 ELSE [@ EXCEPT ![rowIndex][colIndex] = raw # <<>>]]
    /\ UNCHANGED <<imports, cfgVars, jobVars, toastVars, netVars, loading, mounted>>

\* a cell input changes: a text that is neither empty nor all digits is dropped
HandleCellChange(rowIndex, colIndex, raw) ==
    /\ mounted /\ ~loading
    /\ rowIndex \in 1..Len(gridInput) /\ colIndex \in 1..Len(gridInput[rowIndex])
    /\ requestsIssued < MaxEdits
    /\ IF raw # <<>> /\ ~AllDigits(raw)
       THEN UNCHANGED gridVars
       ELSE /\ gridInput' = [gridInput EXCEPT ![rowIndex][colIndex] = raw]
            /\ userProvided' = [userProvided EXCEPT ![rowIndex][colIndex] = raw # <<>>]
    /\ hist' = [hist EXCEPT
                    !.nEdits = @ + 1,
                    !.authored = IF raw # <<>> /\ ~AllDigits(raw) THEN @
                                 ELSE [@ EXCEPT ![rowIndex][colIndex] = raw # <<>>]]
    /\ UNCHANGED <<imports, cfgVars, jobVars, toastVars, netVars, loading, mounted>>

\* the texts typed into the target input
TargetTexts == {<<"3">>, <<"3", "4">>}

\* the target input changes
HandleTargetChange(value) ==
    /\ mounted /\ ~loading
    /\ value # target
    /\ requestsIssued < MaxEdits
    /\ target' = value
    /\ hist' = [hist EXCEPT !.nEdits = @ + 1]
    /\ UNCHANGED <<imports, size, gameMode, runToCompletion, countMaxSeconds,
                   useMultiprocessing, workerCount, gridVars, jobVars, toastVars,
                   netVars, loading, mounted>>

\* the game mode select changes
HandleGameModeChange(mode) ==
    /\ mounted /\ ~loading /\ ~counting
    /\ mode \in GAME_MODES /\ mode # gameMode
    /\ requestsIssued < MaxEdits
    /\ gameMode' = mode
    /\ hist' = [hist EXCEPT !.nEdits = @ + 1]
    /\ UNCHANGED <<imports, size, target, runToCompletion, countMaxSeconds,
                   useMultiprocessing, workerCount, gridVars, jobVars, toastVars,
                   netVars, loading, mounted>>

\* ---------------------------------------------------------------- export
\* the JSON value of a known cell
cellToJson(value) == IF value = Null THEN JNull ELSE JInt(value[1])

\* the payload handleDownloadPuzzle writes
downloadPayload ==
    PuzzleObject(JInt(size), JInt(Number(target)), JStr(Chars(gameMode)),
                 JGrid([r \in 1..Len(gridInput) |->
                            [c \in 1..Len(gridInput[r]) |->
                                cellToJson(buildKnownGrid(FALSE)[r][c])]]),
                 JUndefined)

\* click on Download Current Puzzle JSON: the target and the filled cells are
\* validated, then the payload is written to a file
HandleDownloadPuzzle ==
    /\ mounted /\ ~loading /\ ~counting
    /\ requestsIssued < MaxEdits
    /\ IF solveValidationError # Null
       THEN /\ showToast(Toast("error", solveValidationError[1], Null), FALSE)
            /\ hist' = [hist EXCEPT !.nEdits = @ + 1]
       ELSE /\ showToast(Toast("success", "Puzzle JSON downloaded.", Null), FALSE)
            /\ hist' = [hist EXCEPT
                    !.nEdits = @ + 1,
                    !.exported = Some([payload |-> downloadPayload,
                                       size |-> size,
                                       target |-> Number(target),
                                       gameMode |-> gameMode,
                                       gridInput |-> gridInput,
                                       userProvided |-> userProvided])]
    /\ UNCHANGED <<imports, cfgVars, gridVars, jobVars, netVars, loading, mounted>>

\* ----------------------------------------------------------------- clear
\* click on Clear: a cancel request when counting, then the grid and the count
\* fields are reset
HandleClear ==
    /\ mounted /\ ~loading
    /\ cancelSent => requestsIssued < MaxRequests
    /\ IF cancelSent
       THEN /\ cancelReqs' = cancelReqs \cup
                    {[id |-> hist.nCancels + 1, job |-> activeCountJobIdRef]}
            /\ hist' = [hist EXCEPT !.nCancels = @ + 1,
                                    !.cancelIssued = @ \cup {activeCountJobIdRef},
                                    !.authored = createGrid(size, FALSE)]
       ELSE /\ UNCHANGED cancelReqs
            /\ hist' = [hist EXCEPT !.authored = createGrid(size, FALSE)]
    /\ gridInput' = createGrid(size, <<>>)
    /\ userProvided' = createGrid(size, FALSE)
    /\ countInfo' = Null
    /\ runToCompletion' = FALSE
    /\ useMultiprocessing' = FALSE
    /\ workerCount' = <<>>
    /\ gameMode' = "unbounded"
    /\ showToast(Toast("info", "Grid cleared.", Null), FALSE)
    /\ UNCHANGED <<imports, size, target, countMaxSeconds, counting,
                   countAbortControllerRef, countPollIntervalRef, activeCountJobIdRef,
                   intervals, startReqs, tickReqs, solveReq, jobs, loading, mounted>>

\* ----------------------------------------------------------------- solve
\* click on Solve: validation, then the solve request with the mask captured now
HandleSolve ==
    /\ mounted /\ ~loading
    /\ requestsIssued < MaxRequests
    /\ IF solveValidationError # Null
       THEN /\ showToast(Toast("error", solveValidationError[1], Null), FALSE)
            /\ UNCHANGED <<loading, solveReq, hist>>
       ELSE /\ loading' = TRUE
            /\ showToast(Toast("info", "Solving puzzle...", Null), FALSE)
            /\ solveReq' = Some([body |-> solveRequestBody,
                    providedMask |->
                        [r \in 1..Len(buildKnownGrid(FALSE)) |->
                            [c \in 1..Len(buildKnownGrid(FALSE)[r]) |->
                                buildKnownGrid(FALSE)[r][c] # Null]]])
            /\ hist' = [hist EXCEPT !.nSolves = @ + 1,
                                    !.authoredAtSolve = hist.authored]
    /\ UNCHANGED <<imports, cfgVars, gridVars, jobVars, startReqs, tickReqs, cancelReqs,
                   jobs, mounted>>

\* the values the service fills the open cells with
SolverValues == {5, 12}

\* a solution the service may return for a request: the known cells kept
solutionFor(body, v) ==
    [r \in 1..body.size |->
        [c \in 1..body.size |->
            IF body.known_grid[r][c] # Null THEN body.known_grid[r][c][1] ELSE v]]

\* faulty variant: the mask on screen when the response arrives is kept
SolveOkKeepsMask ==
    /\ solveReq # Null
    /\ Len(solveReq[1].body.known_grid) = solveReq[1].body.size
    /\ \A r \in 1..solveReq[1].body.size :
            Len(solveReq[1].body.known_grid[r]) = solveReq[1].body.size
    /\ \E v \in SolverValues :
        gridInput' = SetState(gridInput,
            [r \in 1..solveReq[1].body.size |->
                [c \in 1..solveReq[1].body.size |->
                    String(solutionFor(solveReq[1].body, v)[r][c])]])
    /\ showToast(Toast("success", "Puzzle solved.", Null), FALSE)
    /\ loading' = SetState(loading, FALSE)
    /\ solveReq' = Null
    /\ hist' = [hist EXCEPT
                    !.authored = IF mounted THEN hist.authoredAtSolve ELSE @]
    /\ UNCHANGED <<imports, cfgVars, jobVars, startReqs, tickReqs, cancelReqs, jobs,
                   mounted, userProvided>>

\* the solve response arrives (the service solves only a request whose grid has
\* size rows of size cells): every cell is overwritten with the solved value and
\* the mask captured at submission is restored
SolveOk ==
    /\ solveReq # Null
    /\ Len(solveReq[1].body.known_grid) = solveReq[1].body.size
    /\ \A r \in 1..solveReq[1].body.size :
            Len(solveReq[1].body.known_grid[r]) = solveReq[1].body.size
    /\ \E v \in SolverValues :
        gridInput' = SetState(gridInput,
            [r \in 1..solveReq[1].body.size |->
                [c \in 1..solveReq[1].body.size |->
                    String(solutionFor(solveReq[1].body, v)[r][c])]])
    /\ userProvided' = SetState(userProvided, solveReq[1].providedMask)
    /\ showToast(Toast("success", "Puzzle solved.", Null), FALSE)
    /\ loading' = SetState(loading, FALSE)
    /\ solveReq' = Null
    /\ hist' = [hist EXCEPT
                    !.authored = IF mounted THEN hist.authoredAtSolve ELSE @]
    /\ UNCHANGED <<imports, cfgVars, jobVars, startReqs, tickReqs, cancelReqs, jobs,
                   mounted>>

\* faulty variant: the failure path does not reach setLoading(false)
SolveFailedKeepsLoading ==
    /\ solveReq # Null
    /\ \E message \in TransportErrors \cup {"service detail", "Solver request failed."} :
        showToast(Toast("error", message, Null), FALSE)
    /\ solveReq' = Null
    /\ UNCHANGED <<imports, cfgVars, gridVars, jobVars, startReqs, tickReqs, cancelReqs, jobs,
                   loading, mounted, hist>>

\* the solve request fails: a non-success response, or a transport error
SolveFailed ==
    /\ solveReq # Null
    /\ \E message \in TransportErrors \cup {"service detail", "Solver request failed."} :
        showToast(Toast("error", message, Null), FALSE)
    /\ loading' = SetState(loading, FALSE)
    /\ solveReq' = Null
    /\ UNCHANGED <<imports, cfgVars, gridVars, jobVars, startReqs, tickReqs, cancelReqs, jobs,
                   mounted, hist>>

\* ------------------------------------------------------------ environment
\* the toast-hiding timeout fires
ToastTimeout ==
    /\ toastTimer
    /\ toastTimer' = FALSE
    /\ toast' = SetState(toast, Null)
    /\ UNCHANGED <<imports, cfgVars, gridVars, jobVars, netVars, loading, mounted, hist>>

\* ------------------------------------------------------------------ Next
Next ==
    \/ HandleCountSolutions
    \/ \E r \in 1..Len(startReqs) : StartOk(r)
    \/ \E r \in 1..Len(startReqs) : StartRejected(r)
    \/ \E r \in 1..Len(startReqs) : StartTransportError(r)
    \/ \E r \in 1..Len(startReqs) : StartAborted(r)
    \/ \E h \in intervals : TickFire(h)
    \/ \E t \in tickReqs : ServerStatus(t)
    \/ \E t \in tickReqs : TickResolve(t)
    \/ \E t \in tickReqs : TickTransportError(t)
    \/ \E t \in tickReqs : TickRejected(t)
    \/ HandleCancelCount
    \/ \E c \in cancelReqs : CancelDelivered(c)
    \/ \E c \in cancelReqs : CancelTransportError(c)
    \/ HandleClear
    \/ ToastTimeout
    \/ Dispose

\* ------------------------------------------------------- renderCountText
\* Math.round of a number given in tenths
MathRound(tenths) == (tenths + 5) \div 10

\* toFixed(2) of a number given in hundredths
toFixed2(hundredths) ==
    String(hundredths \div 100) \o <<".">> \o
    <<String((hundredths % 100) \div 10)[1], String(hundredths % 10)[1]>>

\* (relative_error * 100).toFixed(1) of a relative error given in thousandths
toFixed1Pct(thousandths) ==
    String(thousandths \div 10) \o <<".">> \o String(thousandths % 10)

\* value ?? 0
orZero(value) == IF value = Null THEN 0 ELSE value[1]

\* the estimate and the error margin of the auto and estimate lines
\* ("+/-" stands for the plus-minus sign)
estimateText(info) ==
    IF info.estimated_count = Null THEN <<"N", "/", "A">>
    ELSE toFixed2(info.estimated_count[1])

errorPctText(info) ==
    IF info.relative_error = Null THEN <<>>
    ELSE <<" ", "+/-", " ">> \o toFixed1Pct(info.relative_error[1]) \o <<"%">>

\* faulty variant: a queued snapshot is not taken as one in progress
renderCountTextQueuedFallsThrough(info) ==
    IF info = Null
    THEN [line |-> "Solution count will appear here."]
    ELSE IF info[1].status \in {"running", "canceling"}
    THEN [line |-> "Status: S. Lower bound so far: L. Elapsed: Es. Nodes visited: N.",
          status |-> info[1].status,
          lower_bound |-> orZero(info[1].lower_bound),
          elapsed |-> MathRound(orZero(info[1].elapsed_seconds)),
          nodes |-> orZero(info[1].nodes_visited)]
    ELSE IF info[1].exact
    THEN [line |-> "Exact solutions: C.", count |-> info[1].count]
    ELSE [line |-> "Lower bound: L.", lower_bound |-> orZero(info[1].lower_bound)]

\* the line shown under the grid.  The line is a record: its template and the
\* values interpolated into it.
renderCountText(info) ==
    IF info = Null
    THEN [line |-> "Solution count will appear here."]
    ELSE IF info[1].status \in {"running", "canceling", "queued"}
    THEN [line |-> "Status: S. Lower bound so far: L. Elapsed: Es. Nodes visited: N.",
          status |-> info[1].status,
          lower_bound |-> orZero(info[1].lower_bound),
          elapsed |-> MathRound(orZero(info[1].elapsed_seconds)),
          nodes |-> orZero(info[1].nodes_visited)]
    ELSE IF info[1].exact
    THEN [line |-> "Exact solutions: C.", count |-> info[1].count]
    ELSE IF info[1].mode_used = Some("auto")
    THEN [line |-> "Lower bound: L. Estimated solutions: E.",
          lower_bound |-> orZero(info[1].lower_bound),
          estimate |-> estimateText(info[1]) \o errorPctText(info[1])]
    ELSE IF info[1].mode_used = Some("estimate")
    THEN [line |-> "Estimated solutions: E.",
          estimate |-> estimateText(info[1]) \o errorPctText(info[1])]
    ELSE [line |-> "Lower bound: L.", lower_bound |-> orZero(info[1].lower_bound)]

\* the line is a progress line of a job that has not ended
ProgressLine(text) ==
    text.line = "Status: S. Lower bound so far: L. Elapsed: Es. Nodes visited: N."

\* the count-job controller: start, poll loop, cancel, clear and teardown, with
\* the service and the timers.  The solve path only ever blocks a click here
\* (loading disables the buttons), so leaving it out removes no behaviour of the
\* controller.
Spec == Init /\ [][Next]_vars

\* the solve path and the grid
SolveNext ==
    \/ HandleSolve
    \/ SolveOk
    \/ SolveFailed
    \/ HandleClear
    \/ ToastTimeout
    \/ Dispose

SolveSpec == Init /\ [][SolveNext]_vars

\* ------------------------------------------------------------ the files
\* the candidate values of the size field
SizeCandidates ==
    {JUndefined, JNull, JBool(TRUE), JInt(1), JInt(2), JInt(3), JInt(7), JInt(8),
     JInt(10), JNum(2, 5), JStr(<<"3">>), JStr(<<>>), JStr(<<"a">>),
     JArr(<<JInt(3)>>)}

\* the candidate values of the target field
TargetCandidates ==
    {JUndefined, JNull, JBool(TRUE), JInt(0 - 5), JInt(3), JInt(4), JInt(8),
     JInt(15), JNum(15, 5), JStr(<<"1", "5">>), JStr(<<"1", "5", ".", "5">>)}

\* the candidate values of a cell
CellCandidates ==
    {JNull, JStr(<<>>), JInt(1), JInt(4), JInt(0), JInt(0 - 2), JNum(2, 5),
     JStr(<<"4">>), JStr(<<" ">>), JStr(<<"a">>), JBool(TRUE), JBool(FALSE),
     JArr(<<JInt(4)>>), JObj}

\* an all-null grid of the size a size field coerces to, when it is one
gridFor(sizeField) ==
    IF IsInteger(ToNumber(sizeField)) /\ ToNumber(sizeField)[1].i \in 1..8
    THEN JGrid(createGrid(ToNumber(sizeField)[1].i, JNull))
    ELSE JArr(<<>>)

\* files that vary size and target, with a grid that fits
SizeTargetFiles ==
    {PuzzleObject(s, t, JUndefined, gridFor(s), JUndefined) :
        s \in SizeCandidates, t \in TargetCandidates}

\* 2 x 2 puzzles that vary the cells: one cell over all candidates, and every
\* grid over three of them
CellGrids ==
    {[createGrid(2, JNull) EXCEPT ![rc[1]][rc[2]] = v] :
        rc \in (1..2) \X (1..2), v \in CellCandidates}
    \cup [1..2 -> [1..2 -> {JNull, JInt(0), JInt(4)}]]

CellFiles ==
    {PuzzleObject(JInt(2), JInt(5), JUndefined, JGrid(m), JUndefined) : m \in CellGrids}

\* 2 x 2 puzzles that vary the shape of known_grid and of grid
GoodRow == JArr(<<JInt(4), JNull>>)
BadCellRow == JArr(<<JNull, JInt(0)>>)

ShapeCandidates ==
    {JUndefined, JNull, JInt(3), JStr(<<>>), JBool(FALSE), JObj,
     JArr(<<>>), JArr(<<GoodRow>>), JArr(<<GoodRow, GoodRow, GoodRow>>),
     JArr(<<JArr(<<JInt(4)>>), GoodRow>>),
     JArr(<<GoodRow, JArr(<<JInt(4), JNull, JNull>>)>>),
     JArr(<<GoodRow, JNull>>), JArr(<<JInt(4), JInt(4)>>),
     JArr(<<BadCellRow, JArr(<<>>)>>), JArr(<<JArr(<<>>), BadCellRow>>),
     JArr(<<GoodRow, GoodRow>>)}

ShapeFiles ==
    {PuzzleObject(JInt(2), JInt(5), JUndefined, k, g) :
        k \in ShapeCandidates, g \in {JUndefined, JArr(<<GoodRow, GoodRow>>), JArr(<<GoodRow>>)}}

\* puzzles that vary game_mode
ModeFiles ==
    {PuzzleObject(JInt(2), JInt(5), m, JUndefined, JUndefined) :
        m \in {JUndefined, JNull, JStr(Chars("unbounded")),
                JStr(Chars("bounded_by_size_squared")), JStr(Chars("hard")),
                JStr(<<>>), JInt(1)}}

\* files that are no puzzle object, or no JSON at all
OtherFiles == {JNull, JInt(3), JStr(<<>>), JBool(FALSE), JArr(<<>>), JObj, JInvalid}

RawData == SizeTargetFiles \cup CellFiles \cup ShapeFiles \cup ModeFiles \cup OtherFiles

\* the validator on its own: a file has been chosen in the initial state and its
\* read is in flight
ParseInit ==
    /\ InitApp
    /\ \E raw \in RawData :
        imports = {[id |-> 1, kind |-> "file", raw |-> raw, counting |-> FALSE]}
    /\ hist = [NoHistory EXCEPT !.nImports = 1]

ParseNext ==
    \/ \E i \in imports : ImportLoaded(i)
    \/ ToastTimeout

ParseSpec == ParseInit /\ [][ParseNext]_vars

\* the files loaded into the form: a 2 x 2 puzzle with two known cells, a 4 x 4
\* puzzle of the other mode without a grid, a puzzle with an invalid cell, and
\* a file that is not JSON
FormFiles ==
    {PuzzleObject(JInt(2), JInt(9), JUndefined,
                  JGrid(<<<<JInt(4), JNull>>, <<JNull, JStr(<<"7">>)>>>>), JUndefined),
     PuzzleObject(JInt(4), JInt(34), JStr(Chars("bounded_by_size_squared")),
                  JUndefined, JUndefined),
     PuzzleObject(JInt(2), JInt(9), JUndefined,
                  JGrid(<<<<JInt(4), JNull>>, <<JInt(0), JNull>>>>), JUndefined),
     JInvalid}

\* what the sample request may return
SampleFiles ==
    {PuzzleObject(JInt(2), JInt(9), JUndefined,
                  JGrid(<<<<JInt(4), JNull>>, <<JNull, JStr(<<"7">>)>>>>), JUndefined)}

\* the sizes picked in the size select
FormSizes == {2, 4}

\* the form: edits, imports, export, clear, and the clicks on Solve and on Count
\* Solutions with the solve request's outcome
FormNext ==
    \/ \E n \in FormSizes : HandleSizeChange(n)
    \/ \E rc \in EditedCells : \E raw \in CellTexts : HandleCellChange(rc[1], rc[2], raw)
    \/ \E value \in TargetTexts : HandleTargetChange(value)
    \/ \E mode \in GAME_MODES : HandleGameModeChange(mode)
    \/ \E raw \in FormFiles : HandleLocalFileLoad(raw)
    \/ \E raw \in SampleFiles : HandleSampleLoad(raw)
    \/ \E i \in imports : ImportLoaded(i)
    \/ \E i \in imports : ImportFailed(i)
    \/ HandleDownloadPuzzle
    \/ HandleClear
    \/ requestsIssued < MaxEdits /\ HandleSolve
    \/ SolveOk
    \/ SolveFailed
    \/ requestsIssued < MaxEdits /\ HandleCountSolutions

FormSpec == Init /\ [][FormNext]_vars

\* ------------------------------------------------------ the count options
\* the run-to-completion checkbox changes
HandleRunToCompletionChange(checked) ==
    /\ mounted /\ ~loading /\ ~counting
    /\ checked # runToCompletion
    /\ requestsIssued < MaxEdits
    /\ runToCompletion' = checked
    /\ hist' = [hist EXCEPT !.nEdits = @ + 1]
    /\ UNCHANGED <<imports, size, target, gameMode, countMaxSeconds, useMultiprocessing,
                   workerCount, gridVars, jobVars, toastVars, netVars, loading, mounted>>

\* the texts typed into the time limit input
MaxSecondsTexts == {<<>>, <<"0">>, <<"5">>}

\* the time limit input changes (it is disabled with run to completion)
HandleMaxSecondsChange(value) ==
    /\ mounted /\ ~loading /\ ~counting /\ ~runToCompletion
    /\ value # countMaxSeconds
    /\ requestsIssued < MaxEdits
    /\ countMaxSeconds' = value
    /\ hist' = [hist EXCEPT !.nEdits = @ + 1]
    /\ UNCHANGED <<imports, size, target, gameMode, runToCompletion, useMultiprocessing,
                   workerCount, gridVars, jobVars, toastVars, netVars, loading, mounted>>

\* the multiprocessing checkbox changes
HandleUseMultiprocessingChange(checked) ==
    /\ mounted /\ ~loading /\ ~counting
    /\ checked # useMultiprocessing
    /\ requestsIssued < MaxEdits
    /\ useMultiprocessing' = checked
    /\ hist' = [hist EXCEPT !.nEdits = @ + 1]
    /\ UNCHANGED <<imports, size, target, gameMode, runToCompletion, countMaxSeconds,
                   workerCount, gridVars, jobVars, toastVars, netVars, loading, mounted>>

\* the texts typed into the worker count input
WorkerTexts == {<<"0">>, <<"2">>, <<"2", ".", "5">>, <<"-", "1">>}

\* the worker count input changes (it is disabled without multiprocessing)
HandleWorkerCountChange(value) ==
    /\ mounted /\ ~loading /\ ~counting /\ useMultiprocessing
    /\ value # workerCount
    /\ requestsIssued < MaxEdits
    /\ workerCount' = value
    /\ hist' = [hist EXCEPT !.nEdits = @ + 1]
    /\ UNCHANGED <<imports, size, target, gameMode, runToCompletion, countMaxSeconds,
                   useMultiprocessing, gridVars, jobVars, toastVars, netVars, loading,
                   mounted>>

\* the count options and the start of a count
OptionsNext ==
    \/ \E checked \in BOOLEAN : HandleRunToCompletionChange(checked)
    \/ \E value \in MaxSecondsTexts : HandleMaxSecondsChange(value)
    \/ \E checked \in BOOLEAN : HandleUseMultiprocessingChange(checked)
    \/ \E value \in WorkerTexts : HandleWorkerCountChange(value)
    \/ HandleCountSolutions
    \/ \E r \in 1..Len(startReqs) : StartOk(r)
    \/ \E r \in 1..Len(startReqs) : StartRejected(r)

OptionsSpec == Init /\ [][OptionsNext]_vars

\* ------------------------------------------------------------ the presenter
\* the snapshots the service may return: the result fields only with status
\* completed, the error only with status failed
StatusSnapshots ==
    {s \in [job_id : {1},
            status : {"queued", "running", "canceling", "completed", "canceled", "failed"},
            lower_bound : {Null, Some(3)},
            exact : BOOLEAN,
            count : {Null, Some(8)},
            elapsed_seconds : {Null, Some(14), Some(15)},
            nodes_visited : {Some(20)},
            mode_used : {Null, Some("exact"), Some("auto"), Some("estimate")},
            estimated_count : {Null, Some(1234)},
            relative_error : {Null, Some(125)},
            error : {Null, Some("solver error")}] :
        /\ s.status # "completed" =>
                /\ ~s.exact /\ s.mode_used = Null
                /\ s.estimated_count = Null /\ s.relative_error = Null
        /\ (s.count # Null) = s.exact
        /\ s.status # "failed" => s.error = Null}

\* the service serves the status request with one of these snapshots
ServerSnapshot(t) ==
    /\ t \in tickReqs /\ t.snap = Null
    /\ t.job \in 1..Len(jobs)
    /\ \E s \in StatusSnapshots :
        /\ jobs' = [jobs EXCEPT ![t.job] = s.status]
        /\ tickReqs' = (tickReqs \ {t}) \cup
                {[t EXCEPT !.snap = Some([s EXCEPT !.job_id = t.job])]}
    /\ UNCHANGED <<imports, cfgVars, gridVars, jobVars, toastVars, startReqs, cancelReqs,
                   solveReq, loading, mounted, hist>>

\* one count job and its first status request, answered with any snapshot
PresentNext ==
    \/ Len(startReqs) = 0 /\ HandleCountSolutions
    \/ \E r \in 1..Len(startReqs) : StartOk(r)
    \/ \E h \in intervals : hist.nTicks = 0 /\ TickFire(h)
    \/ \E t \in tickReqs : ServerSnapshot(t)
    \/ \E t \in tickReqs : TickResolve(t)
    \/ ToastTimeout

PresentSpec == Init /\ [][PresentNext]_vars

\* ================================================================ claims
startsInFlight == {r \in 1..Len(startReqs) : startReqs[r].state = "sent"}

\* the controller is Polling: counting is set and a poll timer is armed
Polling == counting /\ countPollIntervalRef # 0

\* a request left flight in this step
requestResolved ==
    \/ \E r \in startsInFlight : startReqs'[r].state = "done"
    \/ tickReqs' \subseteq tickReqs /\ tickReqs' # tickReqs
    \/ cancelReqs' \subseteq cancelReqs /\ cancelReqs' # cancelReqs
    \/ solveReq # Null /\ solveReq' = Null

\* C1: once a job is armed (its id stored, its poll timer set), the response of a
\* status request issued for an earlier job changes none of countInfo, counting
\* and the armed poll timer.
C1_StaleTickIgnored ==
    [][\A t \in tickReqs :
        (TickResolve(t) /\ countPollIntervalRef # 0 /\ t.job # activeCountJobIdRef)
            => UNCHANGED <<countInfo, counting, countPollIntervalRef, intervals>>]_vars

\* C2: a status request is issued only when no other request for that job is in
\* flight, and the snapshots of one job are applied in the order their requests
\* were issued.
C2_TicksInIssueOrder ==
    [][/\ \A t \in tickReqs' :
            (\A u \in tickReqs : u.seq # t.seq)
                => \A u \in tickReqs : u.job # t.job
       /\ hist'.lastApplied.job = hist.lastApplied.job
            => hist'.lastApplied.seq >= hist.lastApplied.seq]_vars

\* C3: at most one start request is in flight, and none while a poll timer is
\* armed.
C3_OneJobAtATime ==
    /\ Cardinality(startsInFlight) <= 1
    /\ startsInFlight # {} => countPollIntervalRef = 0

\* C4: a job whose poll loop was replaced by a newer job's has had a cancel
\* request issued for it.
C4_PreviousJobCancelled == hist.superseded \subseteq hist.cancelIssued

\* C5: at most one poll timer is live, and it is the one the ref holds: arming
\* clears the timer armed before.
C5_OnePollTimer ==
    /\ Cardinality(intervals) <= 1
    /\ intervals \subseteq {countPollIntervalRef}

\* C5 witness: a second job was armed over a live poll loop, and one timer is live
C5_Witness ==
    /\ hist.superseded # {}
    /\ Cardinality(intervals) = 1

\* C6: while the component is mounted, a tick that receives a terminal snapshot
\* stores it, clears the poll timer and resets counting; and no status request
\* is issued for a job after a terminal snapshot of it was received.
C6_TerminalTickStopsPolling ==
    [][/\ \A t \in tickReqs :
            (mounted /\ TickResolve(t) /\ t.snap[1].status \in TerminalStatuses)
                => /\ countInfo' = t.snap
                   /\ countPollIntervalRef' = 0
                   /\ intervals' = {}
                   /\ counting' = FALSE
       /\ \A t \in tickReqs' :
            (\A u \in tickReqs : u.seq # t.seq) => t.job \notin hist.terminalSeen]_vars

\* C6 witness: three ticks were issued and applied, the last one completed, and
\* polling has stopped
C6_Witness ==
    /\ mounted
    /\ hist.nTicks = 3 /\ tickReqs = {}
    /\ hist.lastApplied.seq = 3
    /\ countInfo # Null /\ countInfo[1].status = "completed"
    /\ ~counting /\ countPollIntervalRef = 0 /\ intervals = {}

\* C7: after a teardown that came while a start request was in flight and the
\* controller was not polling, counting is false and no poll timer is armed.
C7_DisposeWhileStartingIsIdle ==
    hist.disposedStarting
        => (~counting /\ countPollIntervalRef = 0 /\ intervals = {})

\* C8: after teardown, the resolution of a request changes none of countInfo,
\* counting, the grid, the mask, the toast and the timers.
C8_NoChangeAfterDispose ==
    [][(~mounted /\ requestResolved)
        => UNCHANGED <<countInfo, counting, gridInput, userProvided, toast,
                       toastTimer, countPollIntervalRef, intervals>>]_vars

\* C9: after teardown no poll timer is armed.
C9_NoTimerAfterDispose ==
    ~mounted => (countPollIntervalRef = 0 /\ intervals = {})

\* C10: a cancel sends a request for the stored job and leaves the poll timer,
\* counting and the stored snapshot as they are, and so does the outcome of the
\* cancel request; as long as the component lives, the controller leaves Polling
\* only in a tick that received a terminal snapshot or failed.
C10_CancelIsCooperative ==
    [][/\ HandleCancelCount
            => /\ UNCHANGED <<countInfo, counting, countPollIntervalRef, intervals>>
               /\ Polling => \E c \in cancelReqs' \ cancelReqs :
                                c.job = activeCountJobIdRef
       /\ \A c \in cancelReqs :
            (CancelDelivered(c) \/ CancelTransportError(c))
                => UNCHANGED <<countInfo, counting, countPollIntervalRef, intervals>>
       /\ (mounted' /\ Polling /\ ~Polling')
            => \E t \in tickReqs :
                \/ TickResolve(t) /\ t.snap[1].status \in TerminalStatuses
                \/ TickTransportError(t)
                \/ TickRejected(t)]_vars

\* C10 witness: a cancel was requested and its request failed, and the
\* controller is still polling
C10_Witness ==
    /\ mounted /\ Polling
    /\ hist.cancelIssued = {activeCountJobIdRef}
    /\ cancelReqs = {}
    /\ toast = Some(Toast("error", "Unable to send cancel request.", Null))

\* C11: a cancel request is sent only while the controller is Polling (counting
\* set, a job id stored, the poll timer armed), and it names the job id the poll
\* loop reads; in every other state a click on Clear or Cancel sends none.
C11_CancelOnlyWhilePolling ==
    [][/\ \A c \in cancelReqs' \ cancelReqs :
            /\ mounted /\ Polling
            /\ countPollIntervalRef \in intervals
            /\ activeCountJobIdRef # 0
            /\ c.job = activeCountJobIdRef
       /\ ~Polling => /\ cancelReqs' \subseteq cancelReqs
                       /\ hist'.cancelIssued = hist.cancelIssued]_vars

\* C11 witness: a cancel request for the polled job is in flight, after an
\* earlier job ended with a terminal snapshot
C11_Witness ==
    /\ mounted /\ Polling
    /\ hist.terminalSeen # {}
    /\ \E c \in cancelReqs : c.job = activeCountJobIdRef

\* C12: while the component is mounted, a poll tick that fails (in transport, in
\* decoding, or with a non-success response) clears the poll timer, resets
\* counting and shows the failure's message as an error; no tick fires while no
\* timer is armed.
C12_PollFailureStops ==
    [][/\ \A t \in tickReqs :
            /\ (mounted /\ TickTransportError(t))
                    => /\ countPollIntervalRef' = 0 /\ intervals' = {}
                       /\ counting' = FALSE
                       /\ \E m \in TransportErrors :
                            toast' = Some(Toast("error", m, Null))
            /\ (mounted /\ TickRejected(t))
                    => /\ countPollIntervalRef' = 0 /\ intervals' = {}
                       /\ counting' = FALSE
                       /\ toast' \in {Some(Toast("error", "service detail", Null)),
                                      Some(Toast("error", "Unable to fetch count status.", Null))}
       /\ (intervals = {} /\ hist'.nTicks # hist.nTicks) => FALSE]_vars

\* C12 witness: a tick of a polled job failed in transport and the loop is stopped
C12_Witness ==
    /\ mounted
    /\ hist.nTicks >= 2 /\ tickReqs = {}
    /\ ~counting /\ countPollIntervalRef = 0 /\ intervals = {}
    /\ toast = Some(Toast("error", "Failed to fetch", Null))

\* C13: while the component is mounted, after a failure of a counting job (a
\* failed start, a failed poll tick, a snapshot with status failed), if no poll
\* timer is armed then counting is false and the line on screen is not the
\* progress line of a job that has not ended.
C13_FailureIsDisplayedTerminal ==
    [][(/\ mounted
        /\ \/ \E r \in startsInFlight : StartRejected(r) \/ StartTransportError(r)
           \/ \E t \in tickReqs :
                \/ TickTransportError(t)
                \/ TickRejected(t)
                \/ TickResolve(t) /\ t.snap[1].status = "failed"
        /\ countPollIntervalRef' = 0)
            => /\ counting' = FALSE
               /\ ~ProgressLine(renderCountText(countInfo'))]_vars

importedRaw == hist.imported[1].raw
importedResult == hist.imported[1].result

\* a JSON value that is a number without a fractional part
IsJsonInteger(v) == v.t = "number" /\ v.f = 0

\* C15: a puzzle file whose grid fits is accepted exactly when its size field is
\* an integer from 2 to 7 and its target field is an integer above the size; an
\* integer size out of range is refused with the error that names 2 and 7.
C15_AcceptsExactlyIntegers ==
    (hist.imported # Null /\ importedRaw \in SizeTargetFiles)
        => /\ importedResult.ok
                <=> /\ IsJsonInteger(importedRaw.size)
                    /\ importedRaw.size.i \in MIN_SIZE..MAX_SIZE
                    /\ IsJsonInteger(importedRaw.target)
                    /\ importedRaw.target.i > importedRaw.size.i
           /\ (IsJsonInteger(importedRaw.size)
                    /\ importedRaw.size.i \notin MIN_SIZE..MAX_SIZE)
                => importedResult =
                     Err("size must be an integer between MIN and MAX.", <<2, 7>>)

\* the cells of a well-shaped 2 x 2 grid that are neither empty nor a value that
\* coerces to an integer >= 1
offendingCells(grid) ==
    {rc \in (1..2) \X (1..2) :
        LET cell == grid.items[rc[1]].items[rc[2]]
        IN  /\ ~(cell.t = "null" \/ cell = JStr(<<>>))
            /\ ~(IsInteger(ToNumber(cell)) /\ ToNumber(cell)[1].i >= 1)}

\* row-major order of cell coordinates
Before(a, b) == a[1] < b[1] \/ (a[1] = b[1] /\ a[2] <= b[2])

\* C16: a puzzle whose grid is well shaped is refused iff some cell is neither
\* null, nor "", nor a value that coerces to an integer >= 1; the error names
\* the first such cell in reading order by its 1-based row and column; in an
\* accepted puzzle null and "" are absent and every other cell is its integer.
C16_CellsCoerceOrReject ==
    (hist.imported # Null /\ importedRaw \in CellFiles)
        => LET grid == importedRaw.known_grid
               bad == offendingCells(grid)
           IN  /\ importedResult.ok <=> bad = {}
               /\ bad # {} =>
                    \E rc \in bad :
                        /\ \A other \in bad : Before(rc, other)
                        /\ importedResult =
                             Err("Cell (R, C) must be an integer >= 1 or null.", rc)
               /\ importedResult.ok =>
                    \A rc \in (1..2) \X (1..2) :
                        LET cell == grid.items[rc[1]].items[rc[2]]
                            known == importedResult.value.knownGrid[rc[1]][rc[2]]
                        IN  IF cell.t = "null" \/ cell = JStr(<<>>)
                            THEN known = Null
                            ELSE known = Some(ToNumber(cell)[1].i)

\* C16 witness: a grid with 4 at (1,1) and 0 at (2,1) and (2,2) was refused with
\* the error naming (2, 1), and the form still shows the initial 3 x 3 puzzle
C16_Witness ==
    /\ hist.imported # Null /\ importedRaw \in CellFiles
    /\ importedRaw.known_grid =
            JGrid(<<<<JInt(4), JNull>>, <<JInt(0), JInt(0)>>>>)
    /\ toast = Some(Toast("error", "Cell (R, C) must be an integer >= 1 or null.",
                          <<2, 1>>))
    /\ size = 3 /\ gridInput = createGrid(3, <<>>)

\* the grid field the validator reads: known_grid, or grid when that is missing
\* or null
gridField(raw) == orElse(raw.known_grid, raw.grid)

\* a JSON value that is an array of n arrays of n items
WellShaped(g, n) ==
    /\ g.t = "array" /\ Len(g.items) = n
    /\ \A r \in 1..n : g.items[r].t = "array" /\ Len(g.items[r].items) = n

\* on success the normalised grid has size rows of size cells
squareOnSuccess ==
    importedResult.ok =>
        /\ Len(importedResult.value.knownGrid) = importedResult.value.size
        /\ \A r \in 1..importedResult.value.size :
            Len(importedResult.value.knownGrid[r]) = importedResult.value.size

\* C17 as stated: a puzzle whose grid field is not a size x size array of arrays,
\* a missing or null one included, is refused with the shape error.
C17_Original ==
    /\ hist.imported # Null => squareOnSuccess
    /\ (hist.imported # Null /\ importedRaw \in ShapeFiles
            /\ ~WellShaped(gridField(importedRaw), 2))
        => importedResult = Err("known_grid must be a NxN array.", <<2, 2>>)

\* C17: a puzzle whose grid field is missing or null is accepted with an all
\* absent grid; one whose grid field is present and not a size x size array of
\* arrays is refused, with the shape error unless a row before the first
\* malformed one holds an invalid cell, which is then the error; and on success
\* the grid has size rows of size cells.
C17_ShapeOrMissing ==
    /\ hist.imported # Null => squareOnSuccess
    /\ (hist.imported # Null /\ importedRaw \in ShapeFiles)
        => LET g == gridField(importedRaw)
           IN  IF g.t \in {"undefined", "null"}
               THEN /\ importedResult.ok
                    /\ importedResult.value.knownGrid = createGrid(2, Null)
               ELSE ~WellShaped(g, 2)
                    => /\ ~importedResult.ok
                       /\ \/ importedResult = Err("known_grid must be a NxN array.", <<2, 2>>)
                          \/ /\ g.t = "array" /\ Len(g.items) = 2
                             /\ WellShaped(JArr(<<g.items[1], g.items[1]>>), 2)
                             /\ \E c \in 1..2 :
                                    importedResult =
                                        Err("Cell (R, C) must be an integer >= 1 or null.",
                                            <<1, c>>)

\* C17 witness: a puzzle with neither known_grid nor grid was loaded, and the
\* form shows an empty 2 x 2 grid
C17_Witness ==
    /\ hist.imported # Null /\ importedRaw \in ShapeFiles
    /\ importedRaw.known_grid = JUndefined /\ importedRaw.grid = JUndefined
    /\ importedResult.ok
    /\ size = 2 /\ gridInput = createGrid(2, <<>>)
    /\ userProvided = createGrid(2, FALSE)

\* the form state a download was made from, and the payload written
exportedFrom == hist.exported[1]

\* C18: the payload of every download that passed validation is accepted by
\* parsePuzzleJson, with the size, the target and the game mode of the form at
\* the download and, as known cells, exactly the non-empty cells with their
\* values.
C18_ExportImportRoundTrip ==
    hist.exported # Null
        => /\ parsePuzzleJson(exportedFrom.payload).ok
           /\ parsePuzzleJson(exportedFrom.payload).value.size = exportedFrom.size
           /\ parsePuzzleJson(exportedFrom.payload).value.target = exportedFrom.target
           /\ parsePuzzleJson(exportedFrom.payload).value.gameMode = exportedFrom.gameMode
           /\ parsePuzzleJson(exportedFrom.payload).value.knownGrid =
                [r \in 1..Len(exportedFrom.gridInput) |->
                    [c \in 1..Len(exportedFrom.gridInput[r]) |->
                        parseCellValue(exportedFrom.gridInput[r][c])]]

\* a read completes with a text that is not a valid puzzle
importRefused ==
    \E i \in imports : ~loadResult(i.raw).ok /\ ImportLoaded(i)

\* the target or a filled cell of the form is invalid
formInvalid == validateTargetError # Null \/ hasInvalidCell(FALSE)

\* C19: a read that ends in a validation error changes none of size, target,
\* game mode, grid text and provided mask; a click on Solve or on Count
\* Solutions with an invalid target or an invalid filled cell issues no request
\* and leaves loading and counting as they were, loading false (and counting
\* false after Count Solutions).
C19_ValidationBlocks ==
    [][/\ importRefused
            => UNCHANGED <<size, target, gameMode, gridInput, userProvided>>
       /\ (formInvalid /\ HandleSolve)
            => UNCHANGED <<netVars, loading, counting>> /\ ~loading'
       /\ (formInvalid /\ HandleCountSolutions)
            => UNCHANGED <<netVars, loading, counting>> /\ ~loading' /\ ~counting'
      ]_vars

\* C19 witness: a file with an invalid cell was refused and the form is as it
\* was at the start but for a cell typed since, whose 0 made a click on Solve
\* or Count Solutions end in the validation error, with no request issued
\* (the typed cell is the only form event counted, so no download was tried).
C19_Witness ==
    /\ hist.imported # Null /\ ~importedResult.ok
    /\ importedResult.message = "Cell (R, C) must be an integer >= 1 or null."
    /\ size = InitialSize /\ target = String(defaultTargetForSize(InitialSize))
    /\ gameMode = "unbounded"
    /\ gridInput = [createGrid(InitialSize, <<>>) EXCEPT ![1][2] = <<"0">>]
    /\ userProvided = [createGrid(InitialSize, FALSE) EXCEPT ![1][2] = TRUE]
    /\ hist.nEdits = 1
    /\ toast = Some(Toast("error", "All filled cells must be integers >= 1.", Null))
    /\ solveReq = Null /\ startReqs = <<>> /\ ~loading /\ ~counting

\* ---------------------------------------------- the controller and resize
\* the count-job controller with the size select, which stays enabled while a
\* count is polled
ResizeNext ==
    \/ Next
    \/ \E nextSize \in MIN_SIZE..MAX_SIZE : HandleSizeChange(nextSize)

ResizeSpec == Init /\ [][ResizeNext]_vars

\* the state handleSizeChange leaves for a size
resized(nextSize) ==
    /\ size' = nextSize
    /\ gridInput' = [r \in 1..nextSize |-> [c \in 1..nextSize |-> <<>>]]
    /\ userProvided' = [r \in 1..nextSize |-> [c \in 1..nextSize |-> FALSE]]
    /\ countInfo' = Null /\ ~runToCompletion' /\ ~useMultiprocessing'
    /\ workerCount' = <<>>

\* C20: a change of the size select to any size of MIN_SIZE..MAX_SIZE leaves a
\* grid of size x size empty cells, an all-false mask, no count status, run to
\* completion and multiprocessing off and an empty worker count; and the count
\* status on display is never that of a job created before the last resize.
C20_ResizeResets ==
    /\ [][\A nextSize \in MIN_SIZE..MAX_SIZE :
            HandleSizeChange(nextSize) => resized(nextSize)]_vars
    /\ [](countInfo # Null => countInfo[1].job_id > hist.jobsAtResize)

\* the text has a character that is not a digit
hasNonDigit(raw) == \E k \in 1..Len(raw) : raw[k] \notin {Digits[d] : d \in 1..10}

\* C21: a text typed into a cell that is not empty and has a character that is
\* not a digit changes nothing of the form; any other text becomes the text of
\* that cell, whose provided flag becomes (the text is not empty), and the text
\* and the flag of every other cell stay as they were.
C21_SetCell ==
    [][\A cell \in EditedCells : \A raw \in CellTexts :
        HandleCellChange(cell[1], cell[2], raw) =>
            IF raw # <<>> /\ hasNonDigit(raw)
            THEN UNCHANGED <<cfgVars, gridVars, jobVars, toastVars, netVars, imports,
                             loading, mounted>>
            ELSE /\ DOMAIN gridInput' = DOMAIN gridInput
                 /\ DOMAIN userProvided' = DOMAIN userProvided
                 /\ \A r \in DOMAIN gridInput :
                        /\ DOMAIN gridInput'[r] = DOMAIN gridInput[r]
                        /\ DOMAIN userProvided'[r] = DOMAIN userProvided[r]
                        /\ \A c \in DOMAIN gridInput[r] :
                            IF <<r, c>> = cell
                            THEN /\ gridInput'[r][c] = raw
                                 /\ userProvided'[r][c] = (raw # <<>>)
                            ELSE /\ gridInput'[r][c] = gridInput[r][c]
                                 /\ userProvided'[r][c] = userProvided[r][c]
      ]_vars

\* C21 witness: one text was typed, "5" into cell (1, 2); it is the only cell
\* with a text and the only one flagged.
C21_Witness ==
    /\ hist.nEdits = 1 /\ hist.nImports = 0 /\ hist.nSolves = 0
    /\ gridInput = [createGrid(InitialSize, <<>>) EXCEPT ![1][2] = <<"5">>]
    /\ userProvided = [createGrid(InitialSize, FALSE) EXCEPT ![1][2] = TRUE]

\* C22: when the solve response is handled, the grid text becomes the solution,
\* a number in every cell and the submitted value in every cell the request
\* gave, and the provided mask becomes the mask captured when Solve was clicked,
\* whatever the grid and the mask are by then.
C22_SolutionApplied ==
    [][(mounted /\ SolveOk) =>
        /\ userProvided' = solveReq[1].providedMask
        /\ Len(gridInput') = solveReq[1].body.size
        /\ \A r \in 1..solveReq[1].body.size :
            /\ Len(gridInput'[r]) = solveReq[1].body.size
            /\ \A c \in 1..solveReq[1].body.size :
                /\ gridInput'[r][c] # <<>> /\ AllDigits(gridInput'[r][c])
                /\ solveReq[1].body.known_grid[r][c] # Null =>
                        gridInput'[r][c] = String(solveReq[1].body.known_grid[r][c][1])
      ]_vars

\* C22 witness: Solve was clicked on the empty initial grid, a puzzle of another
\* size was loaded before the response, and the response has restored the mask
\* of the click, all false over the initial size.
C22_Witness ==
    /\ hist.nSolves = 1 /\ solveReq = Null
    /\ hist.imported # Null /\ importedResult.ok /\ size = importedResult.value.size
    /\ size # InitialSize
    /\ toast = Some(Toast("success", "Puzzle solved.", Null))
    /\ userProvided = createGrid(InitialSize, FALSE)
    /\ \A r \in 1..InitialSize : \A c \in 1..InitialSize : gridInput[r][c] # <<>>

\* C23: a click on Clear leaves what a change of the size select to the current
\* size leaves: the empty grid and the all-false mask of that size, the default
\* target of that size, the game mode as it was, no count status, the count
\* fields reset, and the job, the timers and the requests as they were.
C23_ClearIsResize ==
    [][HandleClear =>
        /\ resized(size)
        /\ target' = String(defaultTargetForSize(size))
        /\ gameMode' = gameMode
        /\ UNCHANGED <<countMaxSeconds, counting, countAbortControllerRef,
                       countPollIntervalRef, activeCountJobIdRef, intervals, netVars>>
      ]_vars

\* C24: the provided flag of a cell is true exactly when the text of the cell
\* was last set, to a text that is not empty, by the user typing it or by a
\* loaded puzzle giving it, and not by a solve response.
C24_MaskTracksAuthorship == userProvided = hist.authored

\* C25: the line shown for a stored snapshot with status failed is the error
\* string of the snapshot when it has one and a generic failure line when it
\* has none.
C25_FailedShowsError ==
    (countInfo # Null /\ countInfo[1].status = "failed")
        => renderCountText(countInfo) =
                [line |-> IF countInfo[1].error = Null THEN "Counting failed."
                          ELSE countInfo[1].error[1]]

\* C26: the line shown for a stored snapshot with status canceled is a
\* cancellation notice with the lower bound of the snapshot, whatever its other
\* fields are.
C26_CanceledShowsNotice ==
    (countInfo # Null /\ countInfo[1].status = "canceled")
        => renderCountText(countInfo) =
                [line |-> "Counting canceled. Latest lower bound: L.",
                 lower_bound |-> orZero(countInfo[1].lower_bound)]

\* C27: the line shown is "Exact solutions: <count>." with the count of the
\* snapshot exactly when the stored snapshot has status completed and exact
\* true; with no snapshot it is the placeholder; and for a snapshot that is
\* queued, running or canceling it is the progress line with that status, the
\* lower bound, the elapsed seconds rounded and the nodes visited.
C27_ExactLineOnlyWhenExact ==
    /\ countInfo = Null
        => renderCountText(countInfo) = [line |-> "Solution count will appear here."]
    /\ countInfo # Null =>
        /\ (renderCountText(countInfo).line = "Exact solutions: C.")
                <=> (countInfo[1].status = "completed" /\ countInfo[1].exact)
        /\ (countInfo[1].status = "completed" /\ countInfo[1].exact)
                => renderCountText(countInfo).count = countInfo[1].count
        /\ countInfo[1].status \in {"queued", "running", "canceling"}
                => renderCountText(countInfo) =
                    [line |-> "Status: S. Lower bound so far: L. Elapsed: Es. Nodes visited: N.",
                     status |-> countInfo[1].status,
                     lower_bound |-> IF countInfo[1].lower_bound = Null THEN 0
                                     ELSE countInfo[1].lower_bound[1],
                     elapsed |-> IF countInfo[1].elapsed_seconds = Null THEN 0
                                 ELSE IF countInfo[1].elapsed_seconds[1] = 14 THEN 1
                                 ELSE 2,
                     nodes |-> 20]

\* C27 witness: a completed exact snapshot with count 8 is stored and the line
\* is the exact-count line with 8.
C27_Witness ==
    /\ countInfo # Null /\ countInfo[1].status = "completed" /\ countInfo[1].exact
    /\ ~counting /\ intervals = {}
    /\ renderCountText(countInfo) = [line |-> "Exact solutions: C.", count |-> Some(8)]

\* C28: in the body of every start request sent, max_seconds is null exactly
\* when the mode is exact; in mode auto it is a positive number; workers is null
\* or a positive integer, and it is null when multiprocessing is off.
C28_RequestInvariant ==
    \A r \in 1..Len(startReqs) :
        /\ startReqs[r].body.mode \in {"exact", "auto"}
        /\ (startReqs[r].body.max_seconds = Null) = (startReqs[r].body.mode = "exact")
        /\ startReqs[r].body.mode = "auto" => startReqs[r].body.max_seconds[1] > 0
        /\ startReqs[r].body.workers # Null =>
                /\ startReqs[r].body.workers[1].f = 0
                /\ startReqs[r].body.workers[1].i > 0
                /\ startReqs[r].body.use_multiprocessing

\* C28 witness: a request was sent in mode auto with the initial time limit
\* and two workers, multiprocessing on.
C28_Witness ==
    \E r \in 1..Len(startReqs) :
        /\ startReqs[r].body.mode = "auto"
        /\ startReqs[r].body.max_seconds = Some(InitialMaxSeconds)
        /\ startReqs[r].body.use_multiprocessing
        /\ startReqs[r].body.workers = Num(2, 0)

\* C29: while the component is mounted, counting is true exactly when a poll
\* timer is armed, and the armed timer is the one the ref holds.
C29_CountingIffTimer ==
    mounted =>
        /\ counting = (intervals # {})
        /\ intervals = IF countPollIntervalRef = 0 THEN {} ELSE {countPollIntervalRef}

\* C29 witness: a second start succeeded while the job of the first was polled,
\* a status request of the first job is still in flight, and counting is true
\* with one timer armed, that of the second start.
C29_Witness ==
    /\ mounted /\ counting
    /\ Len(jobs) = 2 /\ activeCountJobIdRef = 2
    /\ intervals = {countPollIntervalRef} /\ countPollIntervalRef # 0
    /\ \E t \in tickReqs : t.job = 1

\* a matrix of n rows of n cells
isSquareOf(matrix, n) ==
    /\ Len(matrix) = n
    /\ \A r \in 1..Len(matrix) : Len(matrix[r]) = n

\* C30: in every state the grid text matrix and the provided mask both have
\* exactly size rows of size cells.
C30_GridMatchesSize ==
    /\ isSquareOf(gridInput, size)
    /\ isSquareOf(userProvided, size)

\* the start request just issued holds a value only at the cells flagged in flags
countSendsOnly(flags) ==
    Len(startReqs') > Len(startReqs) =>
        \A r \in 1..Len(gridInput) : \A c \in 1..Len(gridInput[r]) :
            startReqs'[Len(startReqs')].body.known_grid[r][c] # Null
                => /\ r \in DOMAIN flags /\ c \in DOMAIN flags[r] /\ flags[r][c]
                   /\ startReqs'[Len(startReqs')].body.known_grid[r][c]
                        = parseCellValue(gridInput[r][c])

\* the solve request just issued holds a value at exactly the non-empty cells
solveSendsEveryFilled ==
    (solveReq = Null /\ solveReq' # Null) =>
        \A r \in 1..Len(gridInput) : \A c \in 1..Len(gridInput[r]) :
            /\ (solveReq'[1].body.known_grid[r][c] # Null) = (gridInput[r][c] # <<>>)
            /\ solveReq'[1].body.known_grid[r][c] = parseCellValue(gridInput[r][c])

\* the payload just downloaded holds a value at exactly the non-empty cells
exportSendsEveryFilled ==
    (hist.exported' # Null /\ hist.exported' # hist.exported) =>
        \A r \in 1..Len(gridInput) : \A c \in 1..Len(gridInput[r]) :
            /\ (hist.exported'[1].payload.known_grid.items[r].items[c] # JNull)
                    = (gridInput[r][c] # <<>>)
            /\ hist.exported'[1].payload.known_grid.items[r].items[c]
                    = cellToJson(parseCellValue(gridInput[r][c]))

\* C31: the known_grid of a count-job start request holds a value only at cells
\* whose provided flag is true, none of them a cell whose value a solver
\* response wrote; the known_grid of a solve request and of a download holds a
\* value at every non-empty cell.
C31_KnownGridBySource ==
    [][/\ countSendsOnly(userProvided)
       /\ countSendsOnly(hist.authored)
       /\ solveSendsEveryFilled
       /\ exportSendsEveryFilled]_vars

\* the solve request in flight comes to its end in this step
solveSettles == solveReq # Null /\ solveReq' = Null

\* C32: while the component is mounted, loading is true exactly while a solve
\* request is in flight, and it is false after the step in which the request
\* resolves or fails; the step in which the request fails (it ends with an
\* error toast) leaves the grid text and the provided mask unchanged.
C32_LoadingTracksSolve ==
    /\ [](mounted => (loading = (solveReq # Null)))
    /\ [][/\ (solveSettles /\ mounted) => ~loading'
          /\ (solveSettles /\ mounted /\ toast'[1].type = "error")
                => UNCHANGED <<gridInput, userProvided>>
         ]_vars

\* C32 witness: a cell was typed, Solve was clicked once and the request failed
\* with a non-success response without detail: loading is false again and the
\* grid and the mask are those of the click.
C32_Witness ==
    /\ mounted /\ ~loading /\ solveReq = Null
    /\ hist.nSolves = 1 /\ hist.nEdits = 1 /\ hist.nImports = 0
    /\ toast = Some(Toast("error", "Solver request failed.", Null))
    /\ gridInput = [createGrid(InitialSize, <<>>) EXCEPT ![1][2] = <<"5">>]
    /\ userProvided = [createGrid(InitialSize, FALSE) EXCEPT ![1][2] = TRUE]

====
